---- MODULE Spec2Model ----
(***************************************************************************)
(* Model of the ransomware-feed ingest scripts:                            *)
(*   main_script/initial_load.py  (backfill of the years 2023..2025)       *)
(*   main_script/update_data.py   (delta update of the 2025 table)         *)
(*                                                                         *)
(* Strings are sequences of one-character strings so that strip(),         *)
(* lower() and strptime() are computed, not assumed.  A JSON value of a    *)
(* raw record is [isNull, s]; an absent key is a key outside DOMAIN item.  *)
(* Optional Python values (a datetime or None) are sequences of length     *)
(* at most one.  A datetime is <<year, month, day, hour, min, sec, usec>>. *)
(***************************************************************************)
EXTENDS Integers, Sequences, FiniteSets, TLC

(***************************************************************************)
(* Python str helpers                                                      *)
(***************************************************************************)
UpperChars == <<"A","B","C","D","E","F","G","H","I","J","K","L","M",
                "N","O","P","Q","R","S","T","U","V","W","X","Y","Z">>

LowerChars == <<"a","b","c","d","e","f","g","h","i","j","k","l","m",
                "n","o","p","q","r","s","t","u","v","w","x","y","z">>

DigitChars == <<"0","1","2","3","4","5","6","7","8","9">>

LowerChar(c) ==
    IF \E i \in 1..26 : UpperChars[i] = c
    THEN LowerChars[CHOOSE i \in 1..26 : UpperChars[i] = c]
    ELSE c

\* str.lower()
Lower(s) == [i \in 1..Len(s) |-> LowerChar(s[i])]

IsSpace(c) == c \in {" ", "\t", "\n", "\r"}

RECURSIVE LStrip(_)
LStrip(s) ==
    IF s # <<>> /\ IsSpace(Head(s)) THEN LStrip(Tail(s)) ELSE s

RECURSIVE RStrip(_)
RStrip(s) ==
    IF s # <<>> /\ IsSpace(s[Len(s)]) THEN RStrip(SubSeq(s, 1, Len(s) - 1)) ELSE s

\* str.strip()
Strip(s) == RStrip(LStrip(s))

IsDigit(c) == \E i \in 1..10 : DigitChars[i] = c

DigitVal(c) == (CHOOSE i \in 1..10 : DigitChars[i] = c) - 1

AllDigits(s) == s # <<>> /\ \A i \in 1..Len(s) : IsDigit(s[i])

RECURSIVE ToInt(_)
ToInt(s) ==
    IF s = <<>> THEN 0 ELSE 10 * ToInt(SubSeq(s, 1, Len(s) - 1)) + DigitVal(s[Len(s)])

\* the pieces of s between the occurrences of the character sep
RECURSIVE Split(_, _)
Split(s, sep) ==
    IF \E i \in 1..Len(s) : s[i] = sep
    THEN LET k == CHOOSE i \in 1..Len(s) :
                     s[i] = sep /\ \A j \in 1..(i - 1) : s[j] # sep
         IN  <<SubSeq(s, 1, k - 1)>> \o Split(SubSeq(s, k + 1, Len(s)), sep)
    ELSE <<s>>

\* Python values
None == <<>>
Some(v) == <<v>>

JNull == [isNull |-> TRUE, s |-> <<>>]
JStr(s) == [isNull |-> FALSE, s |-> s]

\* truthiness of a str-or-None value
Truthy(v) == ~v.isNull /\ v.s # <<>>

\* dict.get(key, default)
Get(item, key, default) == IF key \in DOMAIN item THEN item[key] ELSE default

(***************************************************************************)
(* parse_date (identical in both scripts)                                  *)
(***************************************************************************)
IsLeap(y) == (y % 4 = 0 /\ y % 100 # 0) \/ y % 400 = 0

DaysInMonth(y, m) ==
    IF m = 2 THEN (IF IsLeap(y) THEN 29 ELSE 28)
    ELSE IF m \in {4, 6, 9, 11} THEN 30 ELSE 31

\* a numeric strptime field of lo..hi digits: its value, -1 when it does not match
Num(s, lo, hi) ==
    IF AllDigits(s) /\ Len(s) >= lo /\ Len(s) <= hi THEN ToInt(s) ELSE -1

\* "%Y-%m-%d", split at "-"
DateFields(p) ==
    IF Len(p) = 3 THEN <<Num(p[1], 4, 4), Num(p[2], 1, 2), Num(p[3], 1, 2)>>
    ELSE <<-1, -1, -1>>

\* "%H:%M:%S", split at ":"
TimeFields(p) ==
    IF Len(p) = 3 THEN <<Num(p[1], 1, 2), Num(p[2], 1, 2), Num(p[3], 1, 2)>>
    ELSE <<-1, -1, -1>>

\* "%f": one to six digits, right-padded to microseconds
RECURSIVE Pad6(_)
Pad6(s) == IF Len(s) >= 6 THEN s ELSE Pad6(Append(s, "0"))

MicroField(s) == IF AllDigits(s) /\ Len(s) <= 6 THEN ToInt(Pad6(s)) ELSE -1

ValidDate(d) ==
    /\ d[1] >= 1
    /\ d[2] >= 1
    /\ d[2] <= 12
    /\ d[3] >= 1
    /\ d[3] <= DaysInMonth(d[1], d[2])

ValidTime(t) ==
    /\ t[1] >= 0
    /\ t[1] <= 23
    /\ t[2] >= 0
    /\ t[2] <= 59
    /\ t[3] >= 0
    /\ t[3] <= 59

\* the datetime of the matched fields; None stands for ValueError
MakeDatetime(d, t, us) ==
    IF ValidDate(d) /\ ValidTime(t) /\ us >= 0 THEN Some(d \o t \o <<us>>) ELSE None

\* the "%H:%M:%S.%f" part, split at "."
WithFraction(d, t) ==
    IF Len(t) = 2 THEN MakeDatetime(d, TimeFields(Split(t[1], ":")), MicroField(t[2]))
    ELSE None

\* strptime on the words of the string
StrptimeWords(w, fmt) ==
    CASE fmt = "%Y-%m-%d %H:%M:%S.%f" ->
           IF Len(w) = 2
           THEN WithFraction(DateFields(Split(w[1], "-")), Split(w[2], "."))
           ELSE None
      [] fmt = "%Y-%m-%d %H:%M:%S" ->
           IF Len(w) = 2
           THEN MakeDatetime(DateFields(Split(w[1], "-")), TimeFields(Split(w[2], ":")), 0)
           ELSE None
      [] OTHER ->
           IF Len(w) = 1
           THEN MakeDatetime(DateFields(Split(w[1], "-")), <<0, 0, 0>>, 0)
           ELSE None

\* datetime.strptime(s, fmt): None stands for ValueError
Strptime(s, fmt) == StrptimeWords(Split(s, " "), fmt)

date_formats == <<"%Y-%m-%d %H:%M:%S.%f", "%Y-%m-%d %H:%M:%S", "%Y-%m-%d">>

RECURSIVE TryFormats(_, _)

\* "return strptime(..)" when it parsed, "continue" on ValueError
ReturnOrContinue(r, s, i) == IF r # None THEN r ELSE TryFormats(s, i + 1)

TryFormats(s, i) ==
    IF i > Len(date_formats) THEN None
    ELSE ReturnOrContinue(Strptime(s, date_formats[i]), s, i)

parse_date(date_str) ==
    IF ~Truthy(date_str) THEN None ELSE TryFormats(date_str.s, 1)

\* datetime comparison a > b
RECURSIVE SeqGt(_, _)
SeqGt(a, b) ==
    IF a = <<>> THEN FALSE
    ELSE IF Head(a) # Head(b) THEN Head(a) > Head(b)
    ELSE SeqGt(Tail(a), Tail(b))

DateGt(a, b) == SeqGt(a, b)

YearOf(d) == d[1]

(***************************************************************************)
(* Record normalisation                                                    *)
(***************************************************************************)
S_Other    == <<"O","t","h","e","r">>
S_nan      == <<"n","a","n">>
S_NotFound == <<"N","o","t"," ","F","o","u","n","d">>
S_notfound == <<"n","o","t"," ","f","o","u","n","d">>
S_unknown  == <<"u","n","k","n","o","w","n">>

\* initial_load.clean_sector
clean_sector_load(sector) ==
    IF ~Truthy(sector) \/ Lower(sector.s) \in {S_notfound, S_unknown}
    THEN S_Other
    ELSE Strip(sector.s)

\* update_data.clean_sector
clean_sector_delta(sector) ==
    IF \/ ~Truthy(sector)
       \/ Strip(sector.s) = <<>>
       \/ Lower(Strip(sector.s)) = S_notfound
    THEN S_Other
    ELSE Strip(sector.s)

\* initial_load.extract_month: date.month
extract_month_load(d) == [int |-> d[2]]

\* update_data.extract_month: date_obj.strftime("%m")
extract_month_delta(d) == [str |-> <<DigitChars[(d[2] \div 10) + 1], DigitChars[(d[2] % 10) + 1]>>]

\* the keys whose value is .strip()ped without a None test
StrippedKeys == {"country", "post_title", "group_name"}

\* item.get(k, default).strip() raises AttributeError on a null value
StripRaises(item) == \E k \in StrippedKeys : k \in DOMAIN item /\ item[k].isNull

\* item.get('group_name', 'Other').strip() or 'Other'
GroupName(item) ==
    LET g == Strip(Get(item, "group_name", JStr(S_Other)).s)
    IN  IF g = <<>> THEN S_Other ELSE g

\* the dict literal built for a record that passed the filter
ProcessedItem(item, sector, discovered_date, attack_date, month) ==
    [ sector          |-> sector,
      country         |-> Strip(Get(item, "country", JStr(<<>>)).s),
      post_title      |-> Strip(Get(item, "post_title", JStr(<<>>)).s),
      group_name      |-> GroupName(item),
      discovered_date |-> discovered_date,
      attack_date     |-> attack_date,
      month           |-> month ]

Discard == [kind |-> "discard", row |-> <<>>]
Raise   == [kind |-> "raise",   row |-> <<>>]
Keep(r) == [kind |-> "record",  row |-> <<r>>]

\* mutant of KeepLoad: the year test is forgotten
KeepLoadAnyYear(discovered_date, year) ==
    discovered_date # None

\* initial_load: if discovered_date and discovered_date.year == year
KeepLoad(discovered_date, year) ==
    discovered_date # None /\ YearOf(discovered_date[1]) = year

\* update_data: discovered_date and year == 2025 and
\*              (latest_date is None or discovered_date > latest_date)
KeepDelta(discovered_date, latest_date) ==
    /\ discovered_date # None
    /\ YearOf(discovered_date[1]) = 2025
    /\ (latest_date = None \/ DateGt(discovered_date[1], latest_date[1]))

\* one iteration of the loop of process_and_save_data_by_year
LoadItem(item, year) ==
    LET discovered_date == parse_date(Get(item, "discovered", JStr(<<>>)))
        attack_date     == parse_date(Get(item, "published", JStr(<<>>)))
    IN  IF KeepLoad(discovered_date, year)
        THEN IF StripRaises(item) THEN Raise
             ELSE Keep(ProcessedItem(item,
                                     clean_sector_load(Get(item, "activity", JNull)),
                                     discovered_date, attack_date,
                                     extract_month_load(discovered_date[1])))
        ELSE Discard

\* one iteration of the loop of process_and_save_delta
DeltaItem(item, latest_date) ==
    LET discovered_date == parse_date(Get(item, "discovered", JStr(<<>>)))
        attack_date     == parse_date(Get(item, "published", JStr(<<>>)))
    IN  IF KeepDelta(discovered_date, latest_date)
        THEN IF StripRaises(item) THEN Raise
             ELSE Keep(ProcessedItem(item,
                                     clean_sector_delta(Get(item, "activity", JNull)),
                                     discovered_date, attack_date,
                                     extract_month_delta(discovered_date[1])))
        ELSE Discard

\* Series.replace(values, by): exact match on the cell
Replace(v, values, by) == IF v \in values THEN by ELSE v

\* the DataFrame clean-up applied to each row before to_sql
CleanRow(r) ==
    [r EXCEPT !.sector     = Replace(@, {<<>>, S_nan, S_NotFound}, S_Other),
              !.group_name = Replace(@, {<<>>, S_nan}, S_Other),
              !.country    = Replace(@, {S_nan}, <<>>)]

\* the whole normalisation of one raw record, as it reaches the table
NormalizeLoad(item, year) ==
    LET o == LoadItem(item, year)
    IN  IF o.kind = "record" THEN Keep(CleanRow(o.row[1])) ELSE o

NormalizeDelta(item, latest_date) ==
    LET o == DeltaItem(item, latest_date)
    IN  IF o.kind = "record" THEN Keep(CleanRow(o.row[1])) ELSE o

\* the for loop over the fetched list: the rows collected, or the first raise
RECURSIVE LoadLoop(_, _, _)
LoadLoop(data, year, acc) ==
    IF data = <<>> THEN [raised |-> FALSE, rows |-> acc]
    ELSE LET o == NormalizeLoad(Head(data), year)
         IN  IF o.kind = "raise" THEN [raised |-> TRUE, rows |-> <<>>]
             ELSE LoadLoop(Tail(data), year, acc \o o.row)

RECURSIVE DeltaLoop(_, _, _)
DeltaLoop(data, latest_date, acc) ==
    IF data = <<>> THEN [raised |-> FALSE, rows |-> acc]
    ELSE LET o == NormalizeDelta(Head(data), latest_date)
         IN  IF o.kind = "raise" THEN [raised |-> TRUE, rows |-> <<>>]
             ELSE DeltaLoop(Tail(data), latest_date, acc \o o.row)

(***************************************************************************)
(* The remote feed.  /victims/<year> serves a growing list of incidents:    *)
(* Catalogue(y) lists, in order of publication, the records that appear    *)
(* for year y, and remote[y] is the set of catalogue positions published   *)
(* so far.  The lists of the past years are complete (the one of 2023 is    *)
(* empty); the list of the current year grows between runs.                *)
(***************************************************************************)
FirstYear   == 2023
EndYear     == 2026
CurrentYear == 2025
Years       == FirstYear..(EndYear - 1)

\* the number of script runs (backfill or delta) explored
MaxRuns == 3

Raw(title, discovered) ==
    ("post_title" :> JStr(title)) @@ ("discovered" :> JStr(discovered))

Catalogue(y) ==
    IF y = 2025 THEN
      << \* f: a record of 2024 served by the 2025 endpoint
         Raw(<<"f">>, <<"2","0","2","4","-","1","2","-","3","1">>),
         \* a: plain date, padded country
         Raw(<<"a">>, <<"2","0","2","5","-","0","3","-","0","1">>)
           @@ ("activity" :> JStr(<<"T","e","c","h">>))
           @@ ("country" :> JStr(<<" ","T","H"," ">>))
           @@ ("group_name" :> JStr(<<"l","b">>))
           @@ ("published" :> JStr(<<"2","0","2","5","-","0","2","-","2","8">>)),
         \* b: the newest record, activity "unknown", no group, no published
         Raw(<<"b">>, <<"2","0","2","5","-","0","3","-","0","2"," ","1","0",":","0","0",":","0","0">>)
           @@ ("activity" :> JStr(S_unknown))
           @@ ("country" :> JStr(<<>>)),
         \* c: the same instant as a, written with microseconds
         Raw(<<"c">>, <<"2","0","2","5","-","0","3","-","0","1"," ","0","0",":","0","0",":","0","0",".","0">>)
           @@ ("activity" :> JNull)
           @@ ("group_name" :> JStr(<<" "," ">>))
           @@ ("published" :> JStr(<<"n","/","a">>)),
         \* d: between a and b, country null
         Raw(<<"d">>, <<"2","0","2","5","-","0","3","-","0","1"," ","1","2",":","0","0",":","0","0">>)
           @@ ("country" :> JNull) >>
    ELSE IF y = 2024 THEN
      << Raw(<<"q">>, <<"2","0","2","4","-","0","6","-","1","5">>)
           @@ ("activity" :> JStr(<<" ">> \o S_NotFound)),
         \* x: a record of 2023 served by the 2024 endpoint
         Raw(<<"x">>, <<"2","0","2","3","-","0","5","-","0","5">>),
         \* u: unparseable discovered
         Raw(<<"u">>, <<"0","3","/","1","4","/","2","0","2","4">>)
           @@ ("activity" :> JStr(<<"T","e","c","h">>)),
         \* z: no discovered key at all
         ("post_title" :> JStr(<<"z">>)),
         \* p: a second record of 2024, with microseconds
         Raw(<<"p">>, <<"2","0","2","4","-","0","1","-","0","1"," ","1","2",":","0","0",":","0","0",".","5">>) >>
    ELSE \* the endpoint of 2023 serves an empty list
      << >>

\* the JSON array served for year y when the positions in set are published
RECURSIVE FeedFrom(_, _, _)
FeedFrom(y, set, i) ==
    IF i > Len(Catalogue(y)) THEN <<>>
    ELSE (IF i \in set THEN <<Catalogue(y)[i]>> ELSE <<>>) \o FeedFrom(y, set, i + 1)

Feed(y, set) == FeedFrom(y, set, 1)

(***************************************************************************)
(* Datastore and snapshot directory operations                             *)
(***************************************************************************)
keep_last_n == 5

\* mutant of TruncateTable: the table is not emptied
TruncateKeepsRows(rows) == rows

\* TRUNCATE TABLE ... RESTART IDENTITY
TruncateTable(rows) == <<>>

\* mutant of ToSql: the insert is not one unit, its last row is lost
ToSqlPartial(rows, df) == rows \o SubSeq(df, 1, Len(df) - 1)

\* DataFrame.to_sql(..., if_exists='append')
ToSql(rows, df) == rows \o df

\* SELECT MAX(discovered_date)
RECURSIVE MaxDate(_, _)
MaxDate(rows, best) ==
    IF rows = <<>> THEN best
    ELSE LET d == Head(rows).discovered_date
         IN  MaxDate(Tail(rows),
                     IF d # None /\ (best = None \/ DateGt(d[1], best[1])) THEN d ELSE best)

SelectMaxDiscovered(rows) == MaxDate(rows, None)

\* mutant of OrderByDiscoveredDesc: the ORDER BY clause is forgotten
TableOrder(rows) == rows

\* ORDER BY discovered_date DESC (rows of equal date keep the table order)
RECURSIVE InsertDesc(_, _)
InsertDesc(r, sorted) ==
    IF sorted = <<>> THEN <<r>>
    ELSE IF DateGt(r.discovered_date[1], Head(sorted).discovered_date[1])
         THEN <<r>> \o sorted
         ELSE <<Head(sorted)>> \o InsertDesc(r, Tail(sorted))

RECURSIVE OrderByDiscoveredDesc(_)
OrderByDiscoveredDesc(rows) ==
    IF rows = <<>> THEN <<>>
    ELSE InsertDesc(rows[Len(rows)], OrderByDiscoveredDesc(SubSeq(rows, 1, Len(rows) - 1)))

\* COUNT(*), COUNT(DISTINCT group_name), COUNT(DISTINCT NULLIF(country, ''))
SelectStats(rows) ==
    << Len(rows),
       Cardinality({rows[i].group_name : i \in 1..Len(rows)}),
       Cardinality({rows[i].country : i \in 1..Len(rows)} \ {<<>>}) >>

\* cleanup_old_files: the directory, oldest file first, keeps its newest files
cleanup_old_files(dir) ==
    IF Len(dir) > keep_last_n THEN SubSeq(dir, Len(dir) - keep_last_n + 1, Len(dir)) ELSE dir

\* mutant of NoData: the empty-list guards are forgotten
NoDataNever(list) == FALSE

\* "if not yearly_data" / "if not processed_data"
NoData(list) == list = <<>>

(***************************************************************************)
(* State                                                                   *)
(***************************************************************************)
VARIABLES
    remote,         \* [Years -> SUBSET Nat]: catalogue positions published
    partition,      \* [Years -> Seq(row)]: the tables ransomware_data_<year>
    new_records,    \* files of data/new_records, oldest first
    current_state,  \* files of data/current_state, oldest first
    pc,             \* position of the running script, "idle" between runs
    year,           \* loop variable of initial_load.__main__
    latest_date,    \* local of process_and_save_delta
    data,           \* yearly_data / new_data: the fetched list
    df,             \* the DataFrame built from processed_data
    stats,          \* local: the statistics logged by the current call
    runs,           \* number of script runs started
    run,            \* history of the current call of process_and_save_*
    added,          \* history: per new_records file, the rows its run appended
    loads,          \* history: per year, the last two calls of backfill
    item,           \* input of the normaliser (NormSpec only)
    out             \* result of the normaliser (NormSpec only)

vars == << remote, partition, new_records, current_state, pc, year, latest_date,
           data, df, stats, runs, run, added, loads, item, out >>

locals == << latest_date, data, df >>
files  == << new_records, current_state, added >>
norm   == << item, out >>

DatastoreSteps == {"truncate", "watermark", "insert", "stats"}

NewRun(kind, y) ==
    [ kind      |-> kind,
      pre       |-> partition[y],
      preNew    |-> new_records,
      preCur    |-> current_state,
      fails     |-> {},
      raised    |-> "none",
      fetched   |-> FALSE,
      inserted  |-> FALSE,
      lateWrite |-> FALSE,
      twice     |-> FALSE,
      first     |-> <<>> ]

\* no call in progress: the locals and the history of the last call are gone
Idle ==
    [ kind      |-> "none",
      pre       |-> <<>>,
      preNew    |-> <<>>,
      preCur    |-> <<>>,
      fails     |-> {},
      raised    |-> "none",
      fetched   |-> FALSE,
      inserted  |-> FALSE,
      lateWrite |-> FALSE,
      twice     |-> FALSE,
      first     |-> <<>> ]

\* per year: the table as the last call of process_and_save_data_by_year left
\* it, kept while that call met no fetch or datastore failure and nothing else
\* wrote to the table since
NoLoad == [valid |-> FALSE, feed |-> {}, result |-> <<>>]

\* a write to a table or a snapshot directory, noted in the history
Wrote(r) == [r EXCEPT !.lateWrite = @ \/ (r.fails \cap DatastoreSteps # {})]

Init ==
    /\ remote = [y \in Years |-> IF y = CurrentYear THEN {} ELSE 1..Len(Catalogue(y))]
    /\ partition = [y \in Years |-> <<>>]
    /\ new_records = <<>>
    /\ current_state = <<>>
    /\ pc = "idle"
    /\ year = FirstYear
    /\ latest_date = None
    /\ data = <<>>
    /\ df = <<>>
    /\ stats = <<>>
    /\ runs = 0
    /\ run = Idle
    /\ added = <<>>
    /\ loads = [y \in Years |-> NoLoad]
    /\ item = << >>
    /\ out = [kind |-> "none", row |-> <<>>, by |-> "none"]

(***************************************************************************)
(* The feed publishes one more record (between runs)                       *)
(***************************************************************************)
Publish(y, i) ==
    /\ pc = "idle"
    /\ i \notin remote[y]
    /\ \A j \in 1..(i - 1) : j \in remote[y]
    /\ remote' = [remote EXCEPT ![y] = @ \cup {i}]
    /\ UNCHANGED << partition, files, pc, year, locals, stats, runs, run, loads, norm >>

(***************************************************************************)
(* initial_load.py                                                         *)
(***************************************************************************)
\* the call of process_and_save_data_by_year(year) ends: by return or by raise
LoadReturns(r, envOk, rows) ==
    /\ pc' = "load_exit"
    /\ run' = [r EXCEPT !.twice = envOk /\ loads[year].valid /\ loads[year].feed = remote[year],
                         !.first = loads[year].result]
    /\ loads' = [loads EXCEPT ![year] =
                   IF envOk
                   THEN [valid |-> TRUE, feed |-> remote[year], result |-> rows]
                   ELSE NoLoad]

\* __main__: for year in range(2023, 2026), first iteration
StartLoad ==
    /\ pc = "idle"
    /\ runs < MaxRuns
    /\ runs' = runs + 1
    /\ year' = FirstYear
    /\ pc' = "load_clear"
    /\ run' = NewRun("load", FirstYear)
    /\ latest_date' = None
    /\ data' = <<>>
    /\ df' = <<>>
    /\ UNCHANGED << remote, partition, files, stats, loads, norm >>

\* clear_existing_data(year)
ClearExistingData ==
    /\ pc = "load_clear"
    /\ partition' = [partition EXCEPT ![year] = TruncateTable(@)]
    /\ pc' = "load_fetch"
    /\ run' = Wrote(run)
    /\ UNCHANGED << remote, files, year, locals, stats, runs, loads, norm >>

\* clear_existing_data(year): connect or TRUNCATE fails, logged and re-raised
ClearExistingDataFails ==
    /\ pc = "load_clear"
    /\ LoadReturns([run EXCEPT !.fails = @ \cup {"truncate"}, !.raised = "datastore"],
                   FALSE, partition[year])
    /\ UNCHANGED << remote, partition, files, year, locals, stats, runs, norm >>

\* fetch_data(year) and the guard "if not yearly_data: return"
FetchData ==
    /\ pc = "load_fetch"
    /\ data' = Feed(year, remote[year])
    /\ IF NoData(data')
       THEN LoadReturns([run EXCEPT !.fetched = TRUE], run.fails = {}, partition[year])
       ELSE /\ pc' = "load_process"
            /\ run' = [run EXCEPT !.fetched = TRUE]
            /\ UNCHANGED loads
    /\ UNCHANGED << remote, partition, files, year, latest_date, df, stats, runs, norm >>

\* fetch_data(year): RequestException, logged, [] returned
FetchDataFails ==
    /\ pc = "load_fetch"
    /\ data' = <<>>
    /\ LoadReturns([run EXCEPT !.fetched = TRUE, !.fails = @ \cup {"fetch"}],
                   FALSE, partition[year])
    /\ UNCHANGED << remote, partition, files, year, latest_date, df, stats, runs, norm >>

\* the normalising loop, "if not processed_data: return", the DataFrame clean-up
ProcessLoad ==
    /\ pc = "load_process"
    /\ LET r == LoadLoop(data, year, <<>>)
       IN  IF r.raised
           THEN /\ LoadReturns([run EXCEPT !.raised = "normalize"], run.fails = {},
                               partition[year])
                /\ UNCHANGED df
           ELSE IF NoData(r.rows)
           THEN /\ LoadReturns(run, run.fails = {}, partition[year])
                /\ UNCHANGED df
           ELSE /\ df' = r.rows
                /\ pc' = "load_insert"
                /\ UNCHANGED << run, loads >>
    /\ UNCHANGED << remote, partition, files, year, latest_date, data, stats, runs, norm >>

\* df.to_sql(table_name, engine, if_exists='append')
ToSqlLoad ==
    /\ pc = "load_insert"
    /\ partition' = [partition EXCEPT ![year] = ToSql(@, df)]
    /\ pc' = "load_stats"
    /\ run' = [Wrote(run) EXCEPT !.inserted = TRUE]
    /\ UNCHANGED << remote, files, year, locals, stats, runs, loads, norm >>

\* df.to_sql fails: nothing inserted, logged and re-raised
ToSqlLoadFails ==
    /\ pc = "load_insert"
    /\ LoadReturns([run EXCEPT !.fails = @ \cup {"insert"}, !.raised = "datastore"],
                   FALSE, partition[year])
    /\ UNCHANGED << remote, partition, files, year, locals, stats, runs, norm >>

\* the statistics query
StatsLoad ==
    /\ pc = "load_stats"
    /\ stats' = SelectStats(partition[year])
    /\ LoadReturns(run, run.fails = {}, partition[year])
    /\ UNCHANGED << remote, partition, files, year, locals, runs, norm >>

\* the statistics query fails, logged and re-raised
StatsLoadFails ==
    /\ pc = "load_stats"
    /\ LoadReturns([run EXCEPT !.fails = @ \cup {"stats"}, !.raised = "datastore"],
                   FALSE, partition[year])
    /\ UNCHANGED << remote, partition, files, year, locals, stats, runs, norm >>

\* __main__: the next iteration of the loop, its end, or the except clause
LoadNext ==
    /\ pc = "load_exit"
    /\ IF run.raised = "none" /\ year + 1 < EndYear
       THEN /\ year' = year + 1
            /\ pc' = "load_clear"
            /\ run' = NewRun("load", year + 1)
            /\ data' = <<>>
            /\ df' = <<>>
       ELSE /\ pc' = "idle"
            /\ year' = FirstYear
            /\ run' = Idle
            /\ data' = <<>>
            /\ df' = <<>>
    /\ stats' = <<>>
    /\ UNCHANGED << remote, partition, files, latest_date, runs, loads, norm >>

(***************************************************************************)
(* update_data.py                                                          *)
(***************************************************************************)
\* process_and_save_delta ends: by return or by raise
DeltaReturns(r) ==
    /\ pc' = "delta_exit"
    /\ run' = r

\* __main__ calls process_and_save_delta()
StartDelta ==
    /\ pc = "idle"
    /\ runs < MaxRuns
    /\ runs' = runs + 1
    /\ year' = CurrentYear
    /\ pc' = "delta_latest"
    /\ run' = NewRun("delta", CurrentYear)
    /\ latest_date' = None
    /\ data' = <<>>
    /\ df' = <<>>
    /\ UNCHANGED << remote, partition, files, stats, loads, norm >>

\* get_latest_record_date()
GetLatestRecordDate ==
    /\ pc = "delta_latest"
    /\ latest_date' = SelectMaxDiscovered(partition[CurrentYear])
    /\ pc' = "delta_fetch"
    /\ UNCHANGED << remote, partition, files, year, data, df, stats, runs, run, loads, norm >>

\* get_latest_record_date(): the query fails, logged, None returned
GetLatestRecordDateFails ==
    /\ pc = "delta_latest"
    /\ latest_date' = None
    /\ pc' = "delta_fetch"
    /\ run' = [run EXCEPT !.fails = @ \cup {"watermark"}]
    /\ UNCHANGED << remote, partition, files, year, data, df, stats, runs, loads, norm >>

\* fetch_delta_data()
FetchDeltaData ==
    /\ pc = "delta_fetch"
    /\ data' = Feed(CurrentYear, remote[CurrentYear])
    /\ pc' = "delta_process"
    /\ run' = [run EXCEPT !.fetched = TRUE]
    /\ UNCHANGED << remote, partition, files, year, latest_date, df, stats, runs, loads, norm >>

\* fetch_delta_data(): RequestException, logged, [] returned
FetchDeltaDataFails ==
    /\ pc = "delta_fetch"
    /\ data' = <<>>
    /\ pc' = "delta_process"
    /\ run' = [run EXCEPT !.fetched = TRUE, !.fails = @ \cup {"fetch"}]
    /\ UNCHANGED << remote, partition, files, year, latest_date, df, stats, runs, loads, norm >>

\* the normalising loop, "if not processed_data: return", the DataFrame clean-up
ProcessDelta ==
    /\ pc = "delta_process"
    /\ LET r == DeltaLoop(data, latest_date, <<>>)
       IN  IF r.raised
           THEN /\ DeltaReturns([run EXCEPT !.raised = "normalize"])
                /\ UNCHANGED df
           ELSE IF NoData(r.rows)
           THEN /\ DeltaReturns(run)
                /\ UNCHANGED df
           ELSE /\ df' = r.rows
                /\ pc' = "delta_save_new"
                /\ UNCHANGED run
    /\ UNCHANGED << remote, partition, files, year, latest_date, data, stats, runs, loads, norm >>

\* save_to_csv(df, 'new_records'), with the pruning of both directories
SaveNewRecords ==
    /\ pc = "delta_save_new"
    /\ new_records' = cleanup_old_files(Append(new_records, df))
    /\ added' = cleanup_old_files(Append(added, <<>>))
    /\ current_state' = cleanup_old_files(current_state)
    /\ pc' = "delta_insert"
    /\ run' = Wrote(run)
    /\ UNCHANGED << remote, partition, year, locals, stats, runs, loads, norm >>

\* df.to_sql('ransomware_data_2025', engine, if_exists='append')
ToSqlDelta ==
    /\ pc = "delta_insert"
    /\ partition' = [partition EXCEPT ![CurrentYear] = ToSql(@, df)]
    /\ added' = [added EXCEPT ![Len(added)] = df]
    /\ loads' = [loads EXCEPT ![CurrentYear] = NoLoad]
    /\ pc' = "delta_stats"
    /\ run' = [Wrote(run) EXCEPT !.inserted = TRUE]
    /\ UNCHANGED << remote, new_records, current_state, year, locals, stats, runs, norm >>

\* df.to_sql fails: nothing inserted, logged and re-raised
ToSqlDeltaFails ==
    /\ pc = "delta_insert"
    /\ DeltaReturns([run EXCEPT !.fails = @ \cup {"insert"}, !.raised = "datastore"])
    /\ UNCHANGED << remote, partition, files, year, locals, stats, runs, loads, norm >>

\* the statistics query
StatsDelta ==
    /\ pc = "delta_stats"
    /\ stats' = SelectStats(partition[CurrentYear])
    /\ pc' = "delta_save_cur"
    /\ UNCHANGED << remote, partition, files, year, locals, runs, run, loads, norm >>

\* the connection or a query of the statistics block fails, logged and re-raised
StatsDeltaFails ==
    /\ pc = "delta_stats"
    /\ DeltaReturns([run EXCEPT !.fails = @ \cup {"stats"}, !.raised = "datastore"])
    /\ UNCHANGED << remote, partition, files, year, locals, stats, runs, loads, norm >>

\* SELECT * ... ORDER BY discovered_date DESC; save_to_csv(.., 'current_state')
SaveCurrentState ==
    /\ pc = "delta_save_cur"
    /\ current_state' =
         cleanup_old_files(Append(current_state,
                                  OrderByDiscoveredDesc(partition[CurrentYear])))
    /\ new_records' = cleanup_old_files(new_records)
    /\ added' = cleanup_old_files(added)
    /\ DeltaReturns(Wrote(run))
    /\ UNCHANGED << remote, partition, year, locals, stats, runs, loads, norm >>

\* __main__ of update_data.py ends (after the except clause when it raised)
DeltaDone ==
    /\ pc = "delta_exit"
    /\ pc' = "idle"
    /\ year' = FirstYear
    /\ run' = Idle
    /\ latest_date' = None
    /\ data' = <<>>
    /\ df' = <<>>
    /\ stats' = <<>>
    /\ UNCHANGED << remote, partition, files, runs, loads, norm >>

Next ==
    \/ \E y \in Years : \E i \in 1..Len(Catalogue(y)) : Publish(y, i)
    \/ StartLoad
    \/ ClearExistingData
    \/ ClearExistingDataFails
    \/ FetchData
    \/ FetchDataFails
    \/ ProcessLoad
    \/ ToSqlLoad
    \/ ToSqlLoadFails
    \/ StatsLoad
    \/ StatsLoadFails
    \/ LoadNext
    \/ StartDelta
    \/ GetLatestRecordDate
    \/ GetLatestRecordDateFails
    \/ FetchDeltaData
    \/ FetchDeltaDataFails
    \/ ProcessDelta
    \/ SaveNewRecords
    \/ ToSqlDelta
    \/ ToSqlDeltaFails
    \/ StatsDelta
    \/ StatsDeltaFails
    \/ SaveCurrentState
    \/ DeltaDone

Spec == Init /\ [][Next]_vars

(***************************************************************************)
(* The normaliser alone: one raw record of the documented shape, every key *)
(* independently absent, null, empty or a string, normalised once by the   *)
(* backfill loop or by the delta loop.                                     *)
(***************************************************************************)
Absent == [isNull |-> TRUE, s |-> <<"-">>]

ActivityValues ==
    { Absent, JNull, JStr(<<>>), JStr(<<" "," ">>),
      JStr(S_NotFound), JStr(S_notfound), JStr(<<"N","O","T"," ","F","O","U","N","D">>),
      JStr(S_unknown), JStr(<<"U","n","k","n","o","w","n">>),
      JStr(<<" ">> \o S_unknown \o <<" ">>),
      JStr(S_nan), JStr(<<" ","T","e","c","h"," ">>) }

TextValues == { Absent, JNull, JStr(<<>>), JStr(<<" ","T","H"," ">>) }

GroupValues == TextValues \cup { JStr(<<" "," ">>) }

DiscoveredValues ==
    { Absent, JNull, JStr(<<>>),
      JStr(<<"2","0","2","4","-","0","6","-","1","5">>),
      JStr(<<"2","0","2","5","-","0","3","-","0","2"," ","1","0",":","0","0",":","0","0">>),
      JStr(<<"0","3","/","1","4","/","2","0","2","4">>) }

PublishedValues ==
    { Absent, JNull, JStr(<<>>), JStr(<<"2","0","2","5","-","0","2","-","2","8">>) }

\* the mapping with the keys of c that are present
RawOf(c) == [k \in {k \in DOMAIN c : c[k] # Absent} |-> c[k]]

RawItems ==
    { RawOf([activity |-> a, country |-> co, post_title |-> t, group_name |-> g,
             discovered |-> d, published |-> pu]) :
        a \in ActivityValues, co \in TextValues, t \in TextValues, g \in GroupValues,
        d \in DiscoveredValues, pu \in PublishedValues }

Watermarks == { None, Some(<<2025, 3, 1, 0, 0, 0, 0>>) }

NormInit ==
    /\ remote = [y \in Years |-> {}]
    /\ partition = [y \in Years |-> <<>>]
    /\ new_records = <<>>
    /\ current_state = <<>>
    /\ pc = "idle"
    /\ year = FirstYear
    /\ latest_date = None
    /\ data = <<>>
    /\ df = <<>>
    /\ stats = <<>>
    /\ runs = 0
    /\ run = Idle
    /\ added = <<>>
    /\ loads = [y \in Years |-> NoLoad]
    /\ item \in RawItems
    /\ out = [kind |-> "none", row |-> <<>>, by |-> "none"]

main == << remote, partition, files, pc, year, locals, stats, runs, run, loads >>

Outcome(o, by) == [kind |-> o.kind, row |-> o.row, by |-> by]

\* the body of the backfill loop, for the target year y
NormaliseLoad(y) ==
    /\ out.kind = "none"
    /\ out' = Outcome(NormalizeLoad(item, y), "load")
    /\ UNCHANGED << main, item >>

\* the body of the delta loop, for the watermark w
NormaliseDelta(w) ==
    /\ out.kind = "none"
    /\ out' = Outcome(NormalizeDelta(item, w), "delta")
    /\ UNCHANGED << main, item >>

NormNext ==
    \/ \E y \in Years : NormaliseLoad(y)
    \/ \E w \in Watermarks : NormaliseDelta(w)

NormSpec == NormInit /\ [][NormNext]_vars

(***************************************************************************)
(* Properties                                                              *)
(***************************************************************************)
Last(s) == s[Len(s)]

Titles(rows) == [i \in 1..Len(rows) |-> rows[i].post_title]

TitlesOfRaw(list) == [i \in 1..Len(list) |-> list[i]["post_title"].s]

Count(seq, v) == Cardinality({i \in 1..Len(seq) : seq[i] = v})

\* the instant each record of the current-year catalogue was discovered, read
\* off its discovered string by hand; <<>> for a record outside the year
Discovered(title) ==
    CASE title = <<"a">> -> <<2025, 3, 1, 0, 0, 0, 0>>
      [] title = <<"b">> -> <<2025, 3, 2, 10, 0, 0, 0>>
      [] title = <<"c">> -> <<2025, 3, 1, 0, 0, 0, 0>>
      [] title = <<"d">> -> <<2025, 3, 1, 12, 0, 0, 0>>
      [] OTHER -> <<>>

\* the titles, in feed order, of the current-year records newer than w
RECURSIVE NewerTitles(_, _)
NewerTitles(titles, w) ==
    IF titles = <<>> THEN <<>>
    ELSE (IF /\ Discovered(Head(titles)) # <<>>
             /\ (w = None \/ SeqGt(Discovered(Head(titles)), w[1]))
          THEN <<Head(titles)>> ELSE <<>>) \o NewerTitles(Tail(titles), w)

IsDescending(rows) ==
    \A i, j \in 1..Len(rows) :
        i < j => ~SeqGt(rows[j].discovered_date[1], rows[i].discovered_date[1])

SameRows(r1, r2) ==
    /\ Len(r1) = Len(r2)
    /\ \A i \in 1..Len(r1) : Count(r1, r1[i]) = Count(r2, r1[i])

\* C1: every row stored in the table of year y has a discovered_date, and
\* its year is y: a record without a parseable discovered value or of another
\* year is never inserted, by backfill or by delta.
C1_PartitionYear ==
    \A y \in Years : \A i \in 1..Len(partition[y]) :
        /\ partition[y][i].discovered_date # None
        /\ partition[y][i].discovered_date[1][1] = y

\* a delta run fetched the 2024 record f and inserted, while the 2024 table,
\* whose feed holds a 2023 record and an unparseable one, holds one row
C1_Witness ==
    /\ pc = "delta_stats"
    /\ run.inserted
    /\ \E i \in 1..Len(data) : data[i]["post_title"].s = <<"f">>
    /\ Len(partition[2024]) = 2
    /\ Len(Catalogue(2024)) = 5

\* C2: a delta run that read the watermark w and whose insert did not fail
\* leaves the table equal to its prior rows followed by exactly the fetched
\* current-year records newer than w.
C2_DeltaAppendsNewer ==
    (pc = "delta_exit" /\ run.fails \cap {"watermark", "insert"} = {})
        => /\ Len(partition[CurrentYear]) >= Len(run.pre)
           /\ SubSeq(partition[CurrentYear], 1, Len(run.pre)) = run.pre
           /\ Titles(SubSeq(partition[CurrentYear], Len(run.pre) + 1,
                            Len(partition[CurrentYear])))
                = NewerTitles(TitlesOfRaw(data), latest_date)

\* C3: a call of backfill(Y) that directly follows another call of
\* backfill(Y), both without a fetch or datastore failure and with the same
\* feed, leaves the table of Y as the first call left it.
C3_BackfillIdempotent ==
    (pc = "load_exit" /\ run.twice) => partition[year] = run.first

C3_Witness ==
    /\ pc = "load_exit"
    /\ run.twice
    /\ year = CurrentYear
    /\ Len(partition[year]) >= 2
    /\ run.inserted

\* C4 as stated: at the end of a call of backfill(Y) the table of Y holds what
\* it held before the call or the complete reloaded set (which is empty when
\* nothing was fetched or nothing survived).
C4_AtomicReload ==
    pc = "load_exit" =>
        \/ partition[year] = run.pre
        \/ run.inserted /\ partition[year] = df
        \/ run.raised = "none" /\ ~run.inserted /\ partition[year] = <<>>

\* C4 amended: at the end of a call of backfill(Y) the table of Y holds what
\* it held before (the truncate failed), the complete reloaded set (the insert
\* succeeded) or nothing (truncated, and no insert succeeded); never part of a
\* reload, never old rows with new ones.
C4_TruncateThenReload ==
    pc = "load_exit" =>
        \/ "truncate" \in run.fails /\ partition[year] = run.pre
        \/ "truncate" \notin run.fails /\ run.inserted /\ partition[year] = df
        \/ "truncate" \notin run.fails /\ ~run.inserted /\ partition[year] = <<>>

\* the insert failed after the truncate emptied a table that held rows
C4_Witness ==
    /\ pc = "load_exit"
    /\ "insert" \in run.fails
    /\ run.pre # <<>>
    /\ df # <<>>
    /\ partition[year] = <<>>

\* C5: once the fetch of a call returned an empty list, backfill leaves the
\* truncated table empty and inserts nothing, and delta leaves the table and
\* both snapshot directories as they were.
C5_EmptyFetchGuard ==
    (run.fetched /\ data = <<>>) =>
        /\ ~run.inserted
        /\ run.kind = "load" => partition[year] = <<>>
        /\ run.kind = "delta" => /\ partition[CurrentYear] = run.pre
                                 /\ new_records = run.preNew
                                 /\ current_state = run.preCur

\* a delta run over a table with rows and a feed with records ends after its
\* fetch failed
C5_Witness ==
    /\ pc = "delta_exit"
    /\ run.fetched
    /\ data = <<>>
    /\ "fetch" \in run.fails
    /\ run.pre # <<>>
    /\ remote[CurrentYear] # {}

\* C6: a datastore failure at any datastore step ends the call with the error
\* re-raised and no later write; a failed fetch does not raise.
C6_DatastoreFailureFatal ==
    /\ (run.fails \cap DatastoreSteps # {}) =>
           /\ run.raised = "datastore"
           /\ pc \in {"load_exit", "delta_exit"}
           /\ ~run.lateWrite
    /\ (run.fails = {"fetch"}) => run.raised = "none"

\* C7: a record whose activity is absent, null, empty, "not found" or
\* "unknown" in any casing gets sector "Other", any other activity is stored
\* trimmed, and no stored sector is empty, "nan", "not found" or "unknown".
C7_SectorClean ==
    out.kind = "record" =>
        LET a == Get(item, "activity", JNull)
            s == out.row[1].sector
        IN  /\ (~Truthy(a) \/ Lower(a.s) \in {S_notfound, S_unknown}) => s = S_Other
            /\ s # <<>>
            /\ Lower(s) \notin {S_nan, S_notfound, S_unknown}

\* C9: normalising a raw record of the documented shape yields a row or a
\* discard, never an exception.
C9_NormalizeTotal ==
    out.kind \in {"none", "record", "discard"}

\* C8, order of the writes: the new-records file is written before the
\* append and holds the rows the run then appends; the current-state file is
\* written only after the append and holds the whole table, newest first.
C8_Order ==
    /\ pc = "delta_insert" =>
           /\ Last(new_records) = df
           /\ partition[CurrentYear] = run.pre
           /\ current_state = run.preCur
    /\ pc \in {"delta_stats", "delta_save_cur"} =>
           /\ partition[CurrentYear] = run.pre \o Last(new_records)
           /\ current_state = run.preCur
    /\ (pc = "delta_exit" /\ run.inserted /\ run.raised = "none") =>
           /\ partition[CurrentYear] = run.pre \o Last(new_records)
           /\ current_state # run.preCur
           /\ IsDescending(Last(current_state))
           /\ SameRows(Last(current_state), partition[CurrentYear])

\* C8 as stated: C8_Order, and between runs every new-records file holds the
\* rows that the run that wrote it added to the table.
C8_SnapshotsMatchAppends ==
    /\ C8_Order
    /\ pc \in {"idle", "delta_exit"} =>
           \A i \in 1..Len(new_records) : added[i] = new_records[i]

\* C8 amended: C8_Order, and every new-records file holds the rows that the
\* run that wrote it added to the table, or that run added nothing (its insert
\* has not happened yet, or it failed).
C8_SnapshotsMatchOrOrphan ==
    /\ C8_Order
    /\ Len(added) = Len(new_records)
    /\ \A i \in 1..Len(new_records) :
           /\ new_records[i] # <<>>
           /\ added[i] = new_records[i] \/ added[i] = <<>>
    /\ (pc = "delta_exit" /\ run.inserted) => Last(added) = Last(new_records)
    /\ (pc = "delta_exit" /\ "insert" \in run.fails) =>
           /\ Last(added) = <<>>
           /\ partition[CurrentYear] = run.pre

\* a complete delta run whose current-state file reorders the table, after an
\* earlier run left a new-records file whose rows were never inserted
C8_Witness ==
    /\ pc = "delta_exit"
    /\ run.inserted
    /\ run.raised = "none"
    /\ Last(current_state) # partition[CurrentYear]
    /\ \E i \in 1..Len(new_records) : added[i] = <<>>

\* C10: the current-year table never holds more copies of a record than the
\* feed does.
C10_NoDuplicates ==
    \A i \in 1..Len(Catalogue(CurrentYear)) :
        LET t == Catalogue(CurrentYear)[i]["post_title"].s
        IN  Count(Titles(partition[CurrentYear]), t) <= (IF i \in remote[CurrentYear] THEN 1 ELSE 0)

====
